---- MODULE Spec2Model ----
(***************************************************************************)
(* Model of the Safe-Policy-Optimization benchmark harness:                *)
(*   - safepo/single_agent/benchmark.py : command generation and the       *)
(*     bounded worker pool that runs one subprocess per command;           *)
(*   - safepo/utils/config.py : multi_agent_args, the config builder.      *)
(* Text is modelled as in the program: an integer rendered by str() is a   *)
(* sequence of one-character strings, and a command line is the sequence   *)
(* of the tokens that " ".join glues and shlex.split separates again.      *)
(***************************************************************************)
EXTENDS Integers, Sequences, FiniteSets, TLC

VARIABLES
    args,        \* benchmark.py: the parsed command line (parse_args)
    commands,    \* benchmark.py: the list `commands`
    seed,        \* loop variable of `for seed in range(0, args.num_seeds)`
    ei,          \* position of `env_id` in args.env_ids (1-based)
    ai,          \* position of `algo` in args.algo (1-based)
    pi,          \* position of the print loop in `commands` (1-based)
    si,          \* position of the submit loop in `commands` (1-based)
    pc,          \* where the main thread of benchmark.py is
    stdout,      \* the lines printed so far
    queue,       \* the executor's work queue (indices into commands)
    idle_sem,    \* the executor's idle semaphore
    is_shutdown, \* the executor's shutdown flag
    futures,     \* state of the future of each submitted command
    threads,     \* state of each worker thread of the pool
    procs,       \* every subprocess started so far, in start order
    exit_code,   \* exit status of benchmark.py ("none" while it runs)
    call,        \* config.py: inputs of the latest multi_agent_args call
    result,      \* config.py: outcome of the latest multi_agent_args call
    prev         \* config.py: outcome of the call before the latest

vars == <<args, commands, seed, ei, ai, pi, si, pc, stdout, queue, idle_sem,
          is_shutdown, futures, threads, procs, exit_code, call, result, prev>>

-----------------------------------------------------------------------------
(* Bounds of the model.                                                    *)

MaxSeeds == 2
MaxEnvs == 2
MaxAlgos == 2
MaxRunSeeds == 3
MaxWorkers == 2

-----------------------------------------------------------------------------
(* Text helpers: Python's str(int).                                        *)

DigitChars == <<"0", "1", "2", "3", "4", "5", "6", "7", "8", "9">>

RECURSIVE Digits(_)
Digits(n) ==
    IF n < 10 THEN <<DigitChars[n + 1]>>
    ELSE Digits(n \div 10) \o <<DigitChars[(n % 10) + 1]>>

Str(n) == IF n < 0 THEN <<"-">> \o Digits(-n) ELSE Digits(n)

RECURSIVE SeqsUpTo(_, _)
SeqsUpTo(S, n) ==
    IF n = 0 THEN {<<>>}
    ELSE LET shorter == SeqsUpTo(S, n - 1)
         IN  shorter \cup {Append(s, x) : s \in shorter, x \in S}

NonEmptySeqs(S, n) == SeqsUpTo(S, n) \ {<<>>}

-----------------------------------------------------------------------------
(* benchmark.py: inputs.                                                   *)

EnvIds == {"SafetyCarGoal1-v0", "SafetyAntVelocity-v1"}
Algos == {"cpo", "ppo_lag"}
StartSeeds == {-1000, 0, 7}
Experiments == {"benchmark_single_env_8_14"}

Workers == 1 .. MaxWorkers

SeedStride == 1000

SeedValueNoStride(start_seed, s) == start_seed + s

SeedValue(start_seed, s) == start_seed + SeedStride * s

SeedToken(start_seed, s) == Str(SeedValue(start_seed, s))

Command(algo, env_id, start_seed, s, experiment) ==
    << "python", algo \o ".py",
       "--env-id", env_id,
       "--seed", SeedToken(start_seed, s),
       "--write-terminal", "False",
       "--log-dir", "../runs",
       "--experiment", experiment >>

-----------------------------------------------------------------------------
(* benchmark.py: the main thread.                                          *)

NoThread == [state |-> "none", item |-> 0, proc |-> 0]

NoExecutor ==
    /\ queue = <<>>
    /\ idle_sem = 0
    /\ is_shutdown = FALSE
    /\ futures = <<>>
    /\ threads = [w \in Workers |-> NoThread]
    /\ procs = <<>>

BenchStart ==
    /\ commands = <<>>
    /\ seed = 0
    /\ ei = 1
    /\ ai = 1
    /\ pi = 1
    /\ si = 1
    /\ pc = "build"
    /\ stdout = <<>>
    /\ exit_code = "none"
    /\ NoExecutor

(* the innermost loop, `for algo in args.algo`, has used its last element  *)
AlgoLoopDoneEarly == ai >= Len(args.algo) - 1

AlgoLoopDone == ai >= Len(args.algo)

(* for seed in range(0, args.num_seeds): for env_id in args.env_ids:       *)
(*     for algo in args.algo: commands += [" ".join([...])]                *)
AppendCommand ==
    /\ pc = "build"
    /\ seed < args.num_seeds
    /\ commands' = Append(commands,
                      Command(args.algo[ai], args.env_ids[ei],
                              args.start_seed, seed, args.experiment))
    /\ IF ~AlgoLoopDone
       THEN /\ ai' = ai + 1
            /\ UNCHANGED <<ei, seed>>
       ELSE /\ ai' = 1
            /\ IF ei < Len(args.env_ids)
               THEN /\ ei' = ei + 1
                    /\ UNCHANGED seed
               ELSE /\ ei' = 1
                    /\ seed' = seed + 1
    /\ UNCHANGED <<args, pi, si, pc, stdout, queue, idle_sem, is_shutdown,
                   futures, threads, procs, exit_code, call, result, prev>>

(* print("======= commands to run:") once the loops are exhausted          *)
PrintHeader ==
    /\ pc = "build"
    /\ seed >= args.num_seeds
    /\ stdout' = Append(stdout, <<"======= commands to run:">>)
    /\ pc' = "print"
    /\ UNCHANGED <<args, commands, seed, ei, ai, pi, si, queue, idle_sem,
                   is_shutdown, futures, threads, procs, exit_code,
                   call, result, prev>>

(* for command in commands: print(command)                                 *)
PrintLoopDoneEarly == pi >= Len(commands)

PrintLoopDone == pi > Len(commands)

PrintCommand ==
    /\ pc = "print"
    /\ ~PrintLoopDone
    /\ stdout' = Append(stdout, commands[pi])
    /\ pi' = pi + 1
    /\ UNCHANGED <<args, commands, seed, ei, ai, si, pc, queue, idle_sem,
                   is_shutdown, futures, threads, procs, exit_code,
                   call, result, prev>>

RunsExperiments == args.workers > 0

(* if args.workers > 0: executor = ThreadPoolExecutor(max_workers=...)     *)
CreateExecutor ==
    /\ pc = "print"
    /\ PrintLoopDone
    /\ RunsExperiments
    /\ pc' = "submit"
    /\ UNCHANGED <<args, commands, seed, ei, ai, pi, si, stdout, queue,
                   idle_sem, is_shutdown, futures, threads, procs, exit_code,
                   call, result, prev>>

(* else: print("not running the experiments ..."), and the script ends     *)
NotRunning ==
    /\ pc = "print"
    /\ PrintLoopDone
    /\ ~RunsExperiments
    /\ stdout' = Append(stdout,
          <<"not running the experiments because --workers is set to 0; just printing the commands to run">>)
    /\ pc' = "done"
    /\ exit_code' = "0"
    /\ UNCHANGED <<args, commands, seed, ei, ai, pi, si, queue, idle_sem,
                   is_shutdown, futures, threads, procs, call, result, prev>>

NumThreads == Cardinality({w \in Workers : threads[w].state # "none"})

(* executor.submit(run_experiment, command): the work item is queued and   *)
(* a worker thread is started unless an idle one is accounted for or the   *)
(* pool already has max_workers threads.                                   *)
Submit ==
    /\ pc = "submit"
    /\ si <= Len(commands)
    /\ queue' = Append(queue, si)
    /\ futures' = Append(futures, "pending")
    /\ si' = si + 1
    /\ IF idle_sem > 0
       THEN /\ idle_sem' = idle_sem - 1
            /\ UNCHANGED threads
       ELSE /\ UNCHANGED idle_sem
            /\ IF NumThreads < args.workers
               THEN \E w \in Workers :
                       /\ threads[w].state = "none"
                       /\ \A v \in Workers : v < w => threads[v].state # "none"
                       /\ threads' = [threads EXCEPT ![w].state = "idle"]
               ELSE UNCHANGED threads
    /\ UNCHANGED <<args, commands, seed, ei, ai, pi, pc, stdout, is_shutdown,
                   procs, exit_code, call, result, prev>>

(* executor.shutdown(wait=True): flag the pool, then join the workers      *)
Shutdown ==
    /\ pc = "submit"
    /\ si > Len(commands)
    /\ is_shutdown' = TRUE
    /\ pc' = "join"
    /\ UNCHANGED <<args, commands, seed, ei, ai, pi, si, stdout, queue,
                   idle_sem, futures, threads, procs, exit_code,
                   call, result, prev>>

Join ==
    /\ pc = "join"
    /\ \A w \in Workers : threads[w].state \in {"none", "exited"}
    /\ pc' = "done"
    /\ exit_code' = "0"
    /\ UNCHANGED <<args, commands, seed, ei, ai, pi, si, stdout, queue,
                   idle_sem, is_shutdown, futures, threads, procs,
                   call, result, prev>>

-----------------------------------------------------------------------------
(* benchmark.py: the worker threads (run_experiment) and the subprocesses. *)

ExitCodes == {0, 1}

Running(p) == procs[p].status = "running"

(* fd.wait() returns only once the subprocess has exited                   *)
WaitReturnsAtOnce(p) == TRUE

WaitReturns(p) == procs[p].status = "exited"

(* assert return_code == 0, raised inside the work item: the executor      *)
(* stores the exception in the future, which nobody reads                  *)
FutureAfter(rc) == IF rc = 0 THEN "finished" ELSE "AssertionError"

(* the worker thread survives the exception and takes the next work item   *)
ThreadDiesOnError(rc) == IF rc = 0 THEN "idle" ELSE "exited"

ThreadAfter(rc) == "idle"

(* A pool thread takes the next work item and runs run_experiment up to    *)
(* the blocking wait: shlex.split, print, subprocess.Popen.                *)
StartExperiment(w) ==
    /\ threads[w].state = "idle"
    /\ queue # <<>>
    /\ LET k == Head(queue)
       IN  /\ queue' = Tail(queue)
           /\ futures' = [futures EXCEPT ![k] = "running"]
           /\ stdout' = Append(stdout, <<"running">> \o commands[k])
           /\ procs' = Append(procs, [cmd |-> k, worker |-> w,
                                      status |-> "running", rc |-> 0])
           /\ threads' = [threads EXCEPT ![w] =
                  [state |-> "wait", item |-> k, proc |-> Len(procs) + 1]]
    /\ UNCHANGED <<args, commands, seed, ei, ai, pi, si, pc, idle_sem,
                   is_shutdown, exit_code, call, result, prev>>

(* The operating system: a running subprocess exits with some code.        *)
ProcessExit(p) ==
    /\ Running(p)
    /\ \E rc \in ExitCodes :
          procs' = [procs EXCEPT ![p].status = "exited", ![p].rc = rc]
    /\ UNCHANGED <<args, commands, seed, ei, ai, pi, si, pc, stdout, queue,
                   idle_sem, is_shutdown, futures, threads, exit_code,
                   call, result, prev>>

(* return_code = fd.wait(); assert return_code == 0; the work item ends    *)
(* and the worker reports itself idle.                                     *)
FinishExperiment(w) ==
    /\ threads[w].state = "wait"
    /\ WaitReturns(threads[w].proc)
    /\ LET rc == procs[threads[w].proc].rc
       IN  /\ futures' = [futures EXCEPT ![threads[w].item] = FutureAfter(rc)]
           /\ threads' = [threads EXCEPT ![w] =
                  [state |-> ThreadAfter(rc), item |-> 0, proc |-> 0]]
    /\ idle_sem' = idle_sem + 1
    /\ UNCHANGED <<args, commands, seed, ei, ai, pi, si, pc, stdout, queue,
                   is_shutdown, procs, exit_code, call, result, prev>>

(* After shutdown an idle worker that finds the queue drained terminates.  *)
WorkerExit(w) ==
    /\ threads[w].state = "idle"
    /\ is_shutdown
    /\ queue = <<>>
    /\ threads' = [threads EXCEPT ![w].state = "exited"]
    /\ UNCHANGED <<args, commands, seed, ei, ai, pi, si, pc, stdout, queue,
                   idle_sem, is_shutdown, futures, procs, exit_code,
                   call, result, prev>>

-----------------------------------------------------------------------------
(* config.py: text helpers.                                                *)

(* the Python string made of the characters of a character sequence        *)
RECURSIVE Text(_)
Text(chars) == IF chars = <<>> THEN "" ELSE chars[1] \o Text(Tail(chars))

Zeros(n) == [j \in 1 .. n |-> "0"]

(* str.zfill(width): pad with zeros on the left, after a leading sign      *)
Zfill(chars, width) ==
    IF Len(chars) >= width THEN chars
    ELSE IF chars[1] \in {"+", "-"}
         THEN <<chars[1]>> \o Zeros(width - Len(chars)) \o Tail(chars)
         ELSE Zeros(width - Len(chars)) \o chars

Dash == <<"-">>

(* time.strftime("%Y-%m-%d-%H-%M-%S") of a broken-down local time          *)
StrftimeNoSeconds(t) ==
    Zfill(Digits(t.year), 4) \o Dash \o Zfill(Digits(t.mon), 2) \o Dash
    \o Zfill(Digits(t.day), 2) \o Dash \o Zfill(Digits(t.hour), 2) \o Dash
    \o Zfill(Digits(t.min), 2)

Strftime(t) ==
    Zfill(Digits(t.year), 4) \o Dash \o Zfill(Digits(t.mon), 2) \o Dash
    \o Zfill(Digits(t.day), 2) \o Dash \o Zfill(Digits(t.hour), 2) \o Dash
    \o Zfill(Digits(t.min), 2) \o Dash \o Zfill(Digits(t.sec), 2)

(* relpath = "-".join(["-".join(["seed", str(seed).zfill(3)]), strftime])  *)
Relpath(seed_arg, t) ==
    <<"s", "e", "e", "d">> \o Dash \o Zfill(Str(seed_arg), 3) \o Dash
    \o Strftime(t)

LogDir(experiment, env_name, algo, seed_arg, t) ==
    "../runs/" \o experiment \o "/" \o env_name \o "/" \o algo \o "/"
    \o Text(Relpath(seed_arg, t))

-----------------------------------------------------------------------------
(* config.py: dictionaries are functions from keys to values.              *)

EmptyDict == <<>>

Has(d, k) == k \in DOMAIN d

Put(d, k, v) == [x \in DOMAIN d \cup {k} |-> IF x = k THEN v ELSE d[x]]

Update(d, e) ==
    [x \in DOMAIN d \cup DOMAIN e |-> IF x \in DOMAIN e THEN e[x] ELSE d[x]]

(* an optional integer flag: argparse leaves None when it is not given     *)
NotGiven == [given |-> FALSE, value |-> 0]

Given(v) == [given |-> TRUE, value |-> v]

(* `if args.total_steps:` and `if args.num_envs:` test truthiness          *)
TruthyIfPositive(opt) == opt.given /\ opt.value > 0

Truthy(opt) == opt.given /\ opt.value # 0

ShadowTasks == {"ShadowHandOver", "ShadowHandCatchUnderarm"}

IsShadowTask(task) == task \in ShadowTasks

EnvName(c) ==
    IF c.task = "MujocoVelocity"
    THEN "Safety" \o c.agent_conf \o c.scenario \o "Velocity-v0"
    ELSE c.task

(* cfg_train = yaml.load(f); for MujocoVelocity                            *)
(* cfg_train.update(cfg_train.get("mamujoco"))                             *)
Loaded(c) ==
    IF c.task = "MujocoVelocity"
    THEN Update(c.train_yaml, c.train_yaml["mamujoco"])
    ELSE c.train_yaml

Raise(exc) ==
    [kind |-> "raise", exc |-> exc, cfg_train |-> EmptyDict,
     cfg_env |-> EmptyDict]

Return(cfg_env, cfg_train) ==
    [kind |-> "return", exc |-> "", cfg_train |-> cfg_train,
     cfg_env |-> cfg_env]

NoResult ==
    [kind |-> "none", exc |-> "", cfg_train |-> EmptyDict,
     cfg_env |-> EmptyDict]

(* the device string after the optional re-parse by gymutil                *)
Device(c) ==
    IF IsShadowTask(c.task)
    THEN (IF c.use_gpu_pipeline THEN c.sim_device_type ELSE "cpu")
    ELSE c.device

OverlaySteps(c, d) ==
    IF Truthy(c.total_steps)
    THEN Put(d, "num_env_steps", c.total_steps.value)
    ELSE d

OverlayEnvs(c, d) ==
    IF Truthy(c.num_envs)
    THEN Put(Put(d, "n_rollout_threads", c.num_envs.value),
             "n_eval_rollout_threads", c.num_envs.value)
    ELSE d

(* lines 174-193: the fields laid over the loaded mapping                  *)
CfgTrain(c) ==
    LET d1 == Put(Loaded(c), "use_eval", c.use_eval)
        d2 == Put(d1, "safety_bound", c.safety_bound)
        d3 == Put(d2, "algorithm_name", c.algo)
        d4 == Put(d3, "device", Device(c) \o ":" \o Text(Str(c.device_id)))
        d5 == Put(d4, "env_name", EnvName(c))
        d6 == OverlayEnvs(c, OverlaySteps(c, d5))
    IN  Put(d6, "log_dir",
            LogDir(c.experiment, EnvName(c), c.algo, c.seed, c.now))

(* lines 196-206: the environment YAML and its randomize entry             *)
CfgEnvTask(c) ==
    IF Has(c.env_yaml, "task")
    THEN IF ~Has(c.env_yaml["task"], "randomize")
         THEN Put(c.env_yaml["task"], "randomize", c.randomize)
         ELSE Put(c.env_yaml["task"], "randomize", FALSE)
    ELSE [randomize |-> FALSE]

CfgEnv(c) == Put(Put(c.env_yaml, "name", c.task), "task", CfgEnvTask(c))

(* warn_task_name(): raise Exception("Unrecognized task!")                 *)
WarnTaskNameOnly(r) == r

WarnTaskName(r) == Raise("Exception: Unrecognized task!")

(* multi_agent_args(algo), from the parse to the return or the raise       *)
Outcome(c) ==
    IF IsShadowTask(c.task) /\ ~c.isaacgym
    THEN Raise("Exception: Please install isaacgym to run ShadowHand tasks!")
    ELSE IF c.task = "MujocoVelocity" /\ ~Has(c.train_yaml, "mamujoco")
    THEN Raise("TypeError: 'NoneType' object is not iterable")
    ELSE IF IsShadowTask(c.task)
    THEN IF Has(c.env_yaml, "task") /\ ~Has(c.env_yaml["task"], "randomize")
            /\ ~c.has_randomize
         THEN Raise("AttributeError: 'Namespace' object has no attribute 'randomize'")
         ELSE Return(CfgEnv(c), CfgTrain(c))
    ELSE IF c.task = "MujocoVelocity"
    THEN Return(EmptyDict, CfgTrain(c))
    ELSE WarnTaskName(Return(EmptyDict, CfgTrain(c)))

-----------------------------------------------------------------------------
(* config.py: inputs of a call, and the runs of a training script.         *)

TrainYamls ==
    { [num_env_steps |-> 100, n_rollout_threads |-> 8,
       n_eval_rollout_threads |-> 2,
       mamujoco |-> [num_env_steps |-> 200, n_rollout_threads |-> 16]],
      [num_env_steps |-> 100, n_rollout_threads |-> 8,
       n_eval_rollout_threads |-> 2],
      [n_rollout_threads |-> 8, mamujoco |-> [hidden_size |-> 64]] }

EnvYamls ==
    { [env |-> [numEnvs |-> 64]],
      [task |-> [numEnvs |-> 64]],
      [task |-> [randomize |-> TRUE]],
      [task |-> [randomize |-> FALSE]] }

Seeds == {-5, 0, 5, 1000}

Times ==
    { [year |-> 2023, mon |-> 8, day |-> 14, hour |-> 9, min |-> 5, sec |-> 7],
      [year |-> 2023, mon |-> 8, day |-> 14, hour |-> 9, min |-> 5, sec |-> 8],
      [year |-> 2023, mon |-> 11, day |-> 4, hour |-> 23, min |-> 59, sec |-> 7] }

StepFlags == {NotGiven, Given(-1), Given(0), Given(500)}

EnvFlags == {NotGiven, Given(0), Given(4)}

MujocoCalls ==
    [algo : {"macpo", "mappo"}, task : {"MujocoVelocity"},
     agent_conf : {"2x1"}, scenario : {"Swimmer", "Ant"},
     experiment : {"Base"}, seed : Seeds, now : Times,
     safety_bound : {25}, device : {"cpu"}, device_id : {0},
     use_eval : {FALSE}, total_steps : StepFlags, num_envs : EnvFlags,
     isaacgym : {FALSE}, use_gpu_pipeline : {FALSE},
     sim_device_type : {"cuda"}, has_randomize : {FALSE},
     randomize : {FALSE}, train_yaml : TrainYamls,
     env_yaml : {[env |-> [numEnvs |-> 64]]}]

ShadowCalls ==
    [algo : {"macpo"}, task : ShadowTasks,
     agent_conf : {"2x1"}, scenario : {"Swimmer"},
     experiment : {"Base"}, seed : {0, 5}, now : Times,
     safety_bound : {25}, device : {"cpu"}, device_id : {0},
     use_eval : {FALSE}, total_steps : {NotGiven, Given(500)},
     num_envs : {NotGiven},
     isaacgym : BOOLEAN, use_gpu_pipeline : BOOLEAN,
     sim_device_type : {"cuda"}, has_randomize : BOOLEAN,
     randomize : BOOLEAN,
     train_yaml : {[num_env_steps |-> 100, n_rollout_threads |-> 8,
                    n_eval_rollout_threads |-> 2]},
     env_yaml : EnvYamls]

OtherCalls ==
    [algo : {"macpo"}, task : {"ShadowHandDoorOpen", ""},
     agent_conf : {"2x1"}, scenario : {"Swimmer"},
     experiment : {"Base"}, seed : {0}, now : Times,
     safety_bound : {25}, device : {"cpu"}, device_id : {0},
     use_eval : {FALSE}, total_steps : {NotGiven, Given(500)},
     num_envs : {NotGiven, Given(4)},
     isaacgym : BOOLEAN, use_gpu_pipeline : {FALSE},
     sim_device_type : {"cuda"}, has_randomize : {FALSE},
     randomize : {FALSE}, train_yaml : TrainYamls,
     env_yaml : {[env |-> [numEnvs |-> 64]]}]

Calls == MujocoCalls \cup ShadowCalls \cup OtherCalls

NoCall == [task |-> "none"]

NoPrev ==
    [kind |-> "none", experiment |-> "", env_name |-> "", algo |-> "",
     seed |-> 0, now |-> [year |-> 0, mon |-> 0, day |-> 0, hour |-> 0,
                          min |-> 0, sec |-> 0],
     log_dir |-> ""]

(* what a finished run leaves behind for the comparison with the next one  *)
Summary(c, r) ==
    [kind |-> r.kind, experiment |-> c.experiment, env_name |-> EnvName(c),
     algo |-> c.algo, seed |-> c.seed, now |-> c.now,
     log_dir |-> r.cfg_train["log_dir"]]

ConfigIdle ==
    /\ call = NoCall
    /\ result = NoResult
    /\ prev = NoPrev

(* A training script calls multi_agent_args(algo) once, at start-up.       *)
MultiAgentArgs ==
    /\ result.kind = "none"
    /\ \E c \in Calls :
          /\ call' = c
          /\ result' = Outcome(c)
    /\ UNCHANGED <<prev, args, commands, seed, ei, ai, pi, si, pc, stdout,
                   queue, idle_sem, is_shutdown, futures, threads, procs,
                   exit_code>>

(* The script ends; a later run of it starts from scratch.                 *)
NextRun ==
    /\ result.kind # "none"
    /\ prev' = IF result.kind = "return" THEN Summary(call, result) ELSE prev
    /\ call' = NoCall
    /\ result' = NoResult
    /\ UNCHANGED <<args, commands, seed, ei, ai, pi, si, pc, stdout, queue,
                   idle_sem, is_shutdown, futures, threads, procs, exit_code>>

-----------------------------------------------------------------------------
(* Specifications.                                                        *)

(* Command generation over wide inputs; nothing is executed.               *)
GenInit ==
    /\ args \in [num_seeds : 0 .. MaxSeeds,
                 env_ids : NonEmptySeqs(EnvIds, MaxEnvs),
                 algo : NonEmptySeqs(Algos, MaxAlgos),
                 start_seed : StartSeeds,
                 workers : {-1, 0},
                 experiment : Experiments]
    /\ BenchStart
    /\ ConfigIdle

GenNext ==
    \/ AppendCommand
    \/ PrintHeader
    \/ PrintCommand
    \/ NotRunning

GenSpec == GenInit /\ [][GenNext]_vars

(* A whole benchmark run, with the pool, over a few commands.              *)
Init ==
    /\ args \in [num_seeds : 0 .. MaxRunSeeds,
                 env_ids : {<<"SafetyCarGoal1-v0">>},
                 algo : {<<"cpo">>},
                 start_seed : {0},
                 workers : 0 .. MaxWorkers,
                 experiment : Experiments]
    /\ BenchStart
    /\ ConfigIdle

Next ==
    \/ AppendCommand
    \/ PrintHeader
    \/ PrintCommand
    \/ CreateExecutor
    \/ NotRunning
    \/ Submit
    \/ Shutdown
    \/ Join
    \/ \E w \in Workers : StartExperiment(w)
    \/ \E p \in DOMAIN procs : ProcessExit(p)
    \/ \E w \in Workers : FinishExperiment(w)
    \/ \E w \in Workers : WorkerExit(w)

Spec == Init /\ [][Next]_vars

(* Threads get scheduled and every subprocess eventually exits.            *)
FairSpec == Init /\ [][Next]_vars /\ WF_vars(Next)

(* Successive runs of a script that builds its configuration.              *)
CfgInit ==
    /\ args = [num_seeds |-> 0, env_ids |-> <<"SafetyCarGoal1-v0">>,
               algo |-> <<"cpo">>, start_seed |-> 0, workers |-> 0,
               experiment |-> "benchmark_single_env_8_14"]
    /\ BenchStart
    /\ ConfigIdle

CfgNext ==
    \/ MultiAgentArgs
    \/ NextRun

CfgSpec == CfgInit /\ [][CfgNext]_vars

-----------------------------------------------------------------------------
(* Reading a generated command back.                                       *)

DigitValue(c) == CHOOSE d \in 0 .. 9 : DigitChars[d + 1] = c

RECURSIVE ParseDigits(_)
ParseDigits(t) ==
    IF Len(t) = 0 THEN 0
    ELSE 10 * ParseDigits(SubSeq(t, 1, Len(t) - 1)) + DigitValue(t[Len(t)])

ParseInt(t) == IF t[1] = "-" THEN -ParseDigits(Tail(t)) ELSE ParseDigits(t)

FlagValue(c, flag) == c[(CHOOSE j \in 1 .. Len(c) - 1 : c[j] = flag) + 1]

CmdSeed(c) == ParseInt(FlagValue(c, "--seed"))

CmdEnv(c) == FlagValue(c, "--env-id")

CmdScript(c) == c[2]

CountIn(s, x) == Cardinality({j \in DOMAIN s : s[j] = x})

NumCommands == args.num_seeds * Len(args.env_ids) * Len(args.algo)

CommandsBuilt == pc # "build"

-----------------------------------------------------------------------------
(* Claims about benchmark.py.                                              *)

(* C1: once the loops have run, the command list has exactly               *)
(* num_seeds * len(env_ids) * len(algo) entries, and each (seed index,     *)
(* environment id, algorithm id) triple has as many commands as the id     *)
(* lists repeat its environment and its algorithm.                         *)
C1_CommandsAreTheProduct ==
    CommandsBuilt =>
        /\ Len(commands) = NumCommands
        /\ \A i \in 0 .. args.num_seeds - 1 : \A e \in EnvIds : \A a \in Algos :
              Cardinality({j \in DOMAIN commands :
                              /\ CmdSeed(commands[j]) = args.start_seed + 1000 * i
                              /\ CmdEnv(commands[j]) = e
                              /\ CmdScript(commands[j]) = a \o ".py"})
                = CountIn(args.env_ids, e) * CountIn(args.algo, a)

C1_Witness ==
    /\ CommandsBuilt
    /\ args.num_seeds = 2
    /\ args.env_ids = <<"SafetyCarGoal1-v0", "SafetyCarGoal1-v0">>
    /\ args.algo = <<"cpo", "ppo_lag">>
    /\ Len(commands) = 8

(* C2: the command at any position of the list carries, after --seed, the  *)
(* decimal text of start_seed + 1000*i, i being the seed index of that     *)
(* position in the nested loops; so no command carries another seed.       *)
C2_SeedOfEveryCommand ==
    \A j \in DOMAIN commands :
        LET i == (j - 1) \div (Len(args.env_ids) * Len(args.algo))
        IN  /\ i \in 0 .. args.num_seeds - 1
            /\ commands[j][5] = "--seed"
            /\ ParseInt(commands[j][6]) = args.start_seed + 1000 * i
            /\ commands[j][6] = Str(args.start_seed + 1000 * i)

C2_Witness ==
    /\ CommandsBuilt
    /\ args.start_seed = -1000
    /\ Len(commands) = 8
    /\ commands[1][6] = <<"-", "1", "0", "0", "0">>
    /\ commands[8][6] = <<"0">>

(* C3: with worker count 0 no subprocess and no worker thread ever exists, *)
(* and when the driver has finished every generated command has been       *)
(* printed, in order, after the header line.                               *)
C3_ZeroWorkersOnlyPrint ==
    args.workers = 0 =>
        /\ procs = <<>>
        /\ \A w \in Workers : threads[w].state = "none"
        /\ pc = "done" =>
              /\ Len(commands) = NumCommands
              /\ Len(stdout) >= Len(commands) + 1
              /\ \A i \in DOMAIN commands : stdout[i + 1] = commands[i]

C3_Witness ==
    /\ args.workers = 0
    /\ pc = "done"
    /\ Len(commands) >= 2
    /\ stdout[3] = commands[2]

(* C4: after a subprocess exited with a non-zero code the driver does not  *)
(* reach a normal end with exit status 0.                                  *)
C4_FailureStopsTheRun ==
    (\E p \in DOMAIN procs : procs[p].status = "exited" /\ procs[p].rc # 0)
        => ~(pc = "done" /\ exit_code = "0")

RunningProcs == {p \in DOMAIN procs : Running(p)}

(* C7: with W > 0 workers at most W subprocesses are started and not yet   *)
(* exited, and no worker thread has two of them.                           *)
C7_AtMostWRunning ==
    args.workers > 0 =>
        /\ Cardinality(RunningProcs) <= args.workers
        /\ \A w \in Workers :
              Cardinality({p \in RunningProcs : procs[p].worker = w}) <= 1

C7_Witness ==
    /\ args.workers = 2
    /\ Cardinality(RunningProcs) = 2
    /\ queue # <<>>

Launches(k) == Cardinality({p \in DOMAIN procs : procs[p].cmd = k})

C8_Safe ==
    /\ \A k \in DOMAIN commands : Launches(k) <= 1
    /\ (pc = "done" /\ args.workers > 0) =>
          /\ Len(commands) = NumCommands
          /\ \A k \in DOMAIN commands : Launches(k) = 1
          /\ \A p \in DOMAIN procs : procs[p].status = "exited"

(* C8: when threads are scheduled and subprocesses exit, no command is     *)
(* ever launched twice, the driver finishes, and when it has finished with *)
(* W > 0 every command was launched exactly once and every subprocess has  *)
(* exited, whatever the exit codes were.                                   *)
C8_EveryCommandRunsOnce == [](C8_Safe) /\ <>(pc = "done")

C8_Witness ==
    /\ pc = "done"
    /\ args.workers = 1
    /\ Len(procs) = 3
    /\ procs[1].rc = 1
    /\ procs[3].rc = 0

-----------------------------------------------------------------------------
(* Claims about config.py.                                                 *)

Called == result.kind # "none"

Returned == result.kind = "return"

KnownTasks == ShadowTasks \cup {"MujocoVelocity"}

(* C5: a call of multi_agent_args with a task name other than              *)
(* MujocoVelocity, ShadowHandOver and ShadowHandCatchUnderarm ends by      *)
(* raising, never by returning a configuration.                            *)
C5_UnknownTaskRaises ==
    (Called /\ call.task \notin KnownTasks) => result.kind = "raise"

C5_Witness ==
    /\ Called
    /\ call.task = "ShadowHandDoorOpen"
    /\ Truthy(call.total_steps)
    /\ result.exc = "Exception: Unrecognized task!"

(* C6: a returned cfg_train['log_dir'] is a non-empty string, and it       *)
(* differs from the log_dir of an earlier returned call that had the same  *)
(* experiment, environment name and algorithm but another seed or another  *)
(* timestamp.                                                              *)
C6_LogDirUnique ==
    Returned =>
        /\ Has(result.cfg_train, "log_dir")
        /\ Len(result.cfg_train["log_dir"]) > 0
        /\ ( /\ prev.kind = "return"
             /\ prev.experiment = call.experiment
             /\ prev.env_name = EnvName(call)
             /\ prev.algo = call.algo
             /\ (prev.seed # call.seed \/ prev.now # call.now) )
           => prev.log_dir # result.cfg_train["log_dir"]

C6_Witness ==
    /\ Returned
    /\ prev.kind = "return"
    /\ prev.experiment = call.experiment
    /\ prev.env_name = EnvName(call)
    /\ prev.algo = call.algo
    /\ prev.seed = call.seed
    /\ prev.now.min = call.now.min
    /\ prev.now.sec # call.now.sec
    /\ result.cfg_train["log_dir"]
         = "../runs/Base/Safety2x1SwimmerVelocity-v0/macpo/seed--05-2023-08-14-09-05-08"

(* C9: for the two ShadowHand tasks a returned cfg_env has                 *)
(* ['task']['randomize'], and a value the environment YAML already had     *)
(* there is the value returned.                                            *)
C9_RandomizeKeptWhenPresent ==
    (Returned /\ IsShadowTask(call.task)) =>
        /\ Has(result.cfg_env, "task")
        /\ Has(result.cfg_env["task"], "randomize")
        /\ (Has(call.env_yaml, "task") /\ Has(call.env_yaml["task"], "randomize"))
           => result.cfg_env["task"]["randomize"]
                = call.env_yaml["task"]["randomize"]

SameEntry(d, e, k) == (Has(d, k) <=> Has(e, k)) /\ (Has(d, k) => d[k] = e[k])

(* C10 as stated: every integer given with --total-steps becomes           *)
(* num_env_steps, every integer given with --num-envs becomes both thread  *)
(* counts, and a flag not given leaves the loaded values alone.            *)
C10_EveryGivenValueOverrides ==
    Returned =>
        /\ call.total_steps.given =>
              /\ Has(result.cfg_train, "num_env_steps")
              /\ result.cfg_train["num_env_steps"] = call.total_steps.value
        /\ call.num_envs.given =>
              /\ Has(result.cfg_train, "n_rollout_threads")
              /\ Has(result.cfg_train, "n_eval_rollout_threads")
              /\ result.cfg_train["n_rollout_threads"] = call.num_envs.value
              /\ result.cfg_train["n_eval_rollout_threads"] = call.num_envs.value
        /\ ~call.total_steps.given =>
              SameEntry(result.cfg_train, Loaded(call), "num_env_steps")
        /\ ~call.num_envs.given =>
              /\ SameEntry(result.cfg_train, Loaded(call), "n_rollout_threads")
              /\ SameEntry(result.cfg_train, Loaded(call), "n_eval_rollout_threads")

(* C10 amended: every non-zero integer given with --total-steps becomes    *)
(* num_env_steps, every non-zero integer given with --num-envs becomes     *)
(* both thread counts, and a flag not given, or given as 0, leaves the     *)
(* values of the loaded mapping alone.                                     *)
C10_NonZeroValueOverrides ==
    Returned =>
        /\ (call.total_steps.given /\ call.total_steps.value # 0) =>
              /\ Has(result.cfg_train, "num_env_steps")
              /\ result.cfg_train["num_env_steps"] = call.total_steps.value
        /\ (call.num_envs.given /\ call.num_envs.value # 0) =>
              /\ Has(result.cfg_train, "n_rollout_threads")
              /\ Has(result.cfg_train, "n_eval_rollout_threads")
              /\ result.cfg_train["n_rollout_threads"] = call.num_envs.value
              /\ result.cfg_train["n_eval_rollout_threads"] = call.num_envs.value
        /\ (~call.total_steps.given \/ call.total_steps.value = 0) =>
              SameEntry(result.cfg_train, Loaded(call), "num_env_steps")
        /\ (~call.num_envs.given \/ call.num_envs.value = 0) =>
              /\ SameEntry(result.cfg_train, Loaded(call), "n_rollout_threads")
              /\ SameEntry(result.cfg_train, Loaded(call), "n_eval_rollout_threads")

C10_Witness ==
    /\ Returned
    /\ call.total_steps = Given(-1)
    /\ call.num_envs = Given(0)
    /\ result.cfg_train["num_env_steps"] = -1
    /\ result.cfg_train["n_rollout_threads"] = 16
    /\ result.cfg_train["n_eval_rollout_threads"] = 2

====
